---- MODULE Spec2Model ----
(***************************************************************************)
(* TypeOrmCoreModule (lib/typeorm-core.module.ts): the connection          *)
(* bootstrap (createConnectionFactory), the two registrations (forRoot,    *)
(* forRootAsync) and the shutdown hook (onApplicationShutdown), together   *)
(* with the collaborators they drive: the connector (createI18nConnection),*)
(* the process-wide connection registry (getConnectionManager) and the     *)
(* container's lookup (moduleRef.get).                                     *)
(*                                                                         *)
(* An optional value is a sequence of length 0 (unset) or 1 (set).         *)
(***************************************************************************)
EXTENDS Integers, Sequences, FiniteSets, TLC

\* ------------------------------------------------------------------ bounds
\* Connector calls made in the whole behaviour (connection objects created).
MaxCalls == 4
\* Largest finite retry budget drawn.
MaxAttempts == 3
\* Largest retry delay drawn (ms).
MaxDelay == 1
\* Application instances started after the first one.
MaxRestarts == 2

\* ------------------------------------------------------------- value sets
None == << >>
Some(v) == << v >>

DEFAULT_CONNECTION_NAME == "default"
Names == {DEFAULT_CONNECTION_NAME, "A"}
NameOpts == {None} \cup {Some(n) : n \in Names}
Tokens == {"Connection", "AConnection"}
Ids == 1..MaxCalls
NoConn == 0

\* The four paths of the deferred connect (type unset; autoLoadEntities
\* unset; autoLoadEntities with and without own entities).
ConnectShapes ==
  { [type |-> FALSE, autoLoadEntities |-> FALSE, entities |-> FALSE],
    [type |-> TRUE,  autoLoadEntities |-> FALSE, entities |-> FALSE],
    [type |-> TRUE,  autoLoadEntities |-> TRUE,  entities |-> TRUE],
    [type |-> TRUE,  autoLoadEntities |-> TRUE,  entities |-> FALSE] }

\* TypeOrmModuleOptions: the fields the module reads.
OptionsSet ==
  { [name |-> n, keepConnectionAlive |-> k, retryAttempts |-> a,
     retryDelay |-> d, verboseRetryLog |-> v, type |-> s.type,
     autoLoadEntities |-> s.autoLoadEntities, entities |-> s.entities] :
    n \in NameOpts, k \in BOOLEAN,
    a \in {None} \cup {Some(i) : i \in 0..MaxAttempts},
    d \in {0, MaxDelay}, v \in BOOLEAN, s \in ConnectShapes }

VARIABLES
  mode,        \* "forRoot" | "forRootAsync": how the module was registered
  asyncName,   \* TypeOrmModuleAsyncOptions.name (None under forRoot)
  options,     \* the value of TYPEORM_MODULE_OPTIONS (this.options)
  phase,       \* "idle" | "establishing" | "up" | "failed" | "down"
  run,         \* the call of createConnectionFactory in progress
  twin,        \* the same call with verboseRetryLog negated, same connector outcomes
  nextId,      \* the next connection object the connector creates
  opened,      \* connection objects whose connect succeeded
  connected,   \* connection objects with isConnected = true
  registry,    \* getConnectionManager(): name -> connection object, NoConn if absent
  container,   \* the module's providers: token -> instance, NoConn if absent
  lastLookup,  \* the token onApplicationShutdown looked up (None: no lookup)
  closeCalls,  \* connection object -> number of close() calls
  closeOnClosed, \* close() was invoked on an object that was not connected
  restarts

vars == << mode, asyncName, options, phase, run, twin, nextId, opened, connected,
           registry, container, lastLookup, closeCalls, closeOnClosed, restarts >>

\* ------------------------------------------------ lib/common/typeorm.utils
\* getConnectionName(options): the options' name, or the default name.
GetConnectionName(o) ==
  IF o.name # None THEN o.name[1] ELSE DEFAULT_CONNECTION_NAME

\* getConnectionToken(options): the default connection's token is the
\* Connection class, a named connection's is `${name}Connection`.
GetConnectionToken(o) ==
  IF o.name = None \/ o.name = Some(DEFAULT_CONNECTION_NAME)
  THEN "Connection"
  ELSE "AConnection"

\* "unlimited": a retry budget of zero or unset.
Unlimited(attempts) == attempts = None \/ attempts = Some(0)

\* handleRetry's decision after the made-th failed attempt.
HandleRetry(made, args) ==
  IF Unlimited(args.retryAttempts) \/ made < args.retryAttempts[1]
  THEN "retry"
  ELSE "throw"

\* ------------------------------------------------------ registrations
\* The options createConnectionFactory is called with.
EffectiveOptions ==
  IF mode = "forRootAsync" /\ asyncName # None
  THEN [options EXCEPT !.name = asyncName]
  ELSE options

\* The token the connection provider is registered under.
ProviderToken ==
  IF mode = "forRootAsync"
  THEN GetConnectionToken([name |-> asyncName])
  ELSE GetConnectionToken(options)

\* ------------------------------------------------ createConnectionFactory
NewRun ==
  [st |-> "none", calls |-> 0, errorCount |-> 0, delays |-> 0, elapsed |-> 0,
   logged |-> 0, result |-> NoConn, source |-> "none", error |-> NoConn,
   lookup |-> "none", args |-> "none"]

\* A mutant: the budget and the delay passed in each other's place.
RetryArgsSwapped(o) ==
  [retryAttempts |-> Some(o.retryDelay),
   retryDelay |-> IF o.retryAttempts = None THEN 0 ELSE o.retryAttempts[1],
   connectionName |-> GetConnectionName(o),
   verboseRetryLog |-> o.verboseRetryLog]

\* A mutant: the verbose flag passed as the budget.
RetryArgsVerboseFirst(o) ==
  [retryAttempts |-> IF o.verboseRetryLog THEN Some(1) ELSE Some(0),
   retryDelay |-> o.retryDelay,
   connectionName |-> GetConnectionName(o),
   verboseRetryLog |-> o.verboseRetryLog]

\* The arguments handed to handleRetry.
RetryArgs(o) ==
  [retryAttempts |-> o.retryAttempts,
   retryDelay |-> o.retryDelay,
   connectionName |-> GetConnectionName(o),
   verboseRetryLog |-> o.verboseRetryLog]

Miss(seen) == [hit |-> NoConn, lookup |-> seen, fatal |-> FALSE]

\* A mutant: a registered connection is returned without reading isConnected.
KeepAliveCheckNoIsConnected(o, fault) ==
  IF ~o.keepConnectionAlive THEN Miss("skipped")
  ELSE IF fault = "has" THEN Miss("threw")
  ELSE IF registry[GetConnectionName(o)] = NoConn THEN Miss("absent")
  ELSE IF fault = "get" THEN Miss("threw")
  ELSE [hit |-> registry[GetConnectionName(o)],
        lookup |-> IF registry[GetConnectionName(o)] \in connected
                   THEN "connected" ELSE "notConnected",
        fatal |-> FALSE]

\* A mutant: no try/catch around the registry check.
KeepAliveCheckNoCatch(o, fault) ==
  IF ~o.keepConnectionAlive THEN Miss("skipped")
  ELSE IF fault = "has" THEN [Miss("threw") EXCEPT !.fatal = TRUE]
  ELSE IF registry[GetConnectionName(o)] = NoConn THEN Miss("absent")
  ELSE IF fault = "get" THEN [Miss("threw") EXCEPT !.fatal = TRUE]
  ELSE IF fault = "isConnected" THEN [Miss("threw") EXCEPT !.fatal = TRUE]
  ELSE IF registry[GetConnectionName(o)] \in connected
       THEN [hit |-> registry[GetConnectionName(o)], lookup |-> "connected",
             fatal |-> FALSE]
  ELSE Miss("notConnected")

\* A mutant: the keep-alive condition negated.
KeepAliveCheckNegated(o, fault) ==
  IF o.keepConnectionAlive THEN Miss("skipped")
  ELSE IF fault = "has" THEN Miss("threw")
  ELSE IF registry[GetConnectionName(o)] = NoConn THEN Miss("absent")
  ELSE IF fault = "get" THEN Miss("threw")
  ELSE IF fault = "isConnected" THEN Miss("threw")
  ELSE IF registry[GetConnectionName(o)] \in connected
       THEN [hit |-> registry[GetConnectionName(o)], lookup |-> "connected",
             fatal |-> FALSE]
  ELSE Miss("notConnected")

\* The try block: with keep-alive, the registered connection of that name if
\* it is connected. fault names the registry call that throws when it is
\* reached; lookup is what the check saw. The catch swallows every throw, so
\* fatal (the throw left the try block) is never set.
KeepAliveCheck(o, fault) ==
  IF ~o.keepConnectionAlive THEN Miss("skipped")
  ELSE IF fault = "has" THEN Miss("threw")
  ELSE IF registry[GetConnectionName(o)] = NoConn THEN Miss("absent")
  ELSE IF fault = "get" THEN Miss("threw")
  ELSE IF fault = "isConnected" THEN Miss("threw")
  ELSE IF registry[GetConnectionName(o)] \in connected
       THEN [hit |-> registry[GetConnectionName(o)], lookup |-> "connected",
             fatal |-> FALSE]
  ELSE Miss("notConnected")

\* The call's state once the try block is done.
StartRun(o, fault) ==
  LET c == KeepAliveCheck(o, fault) IN
  IF c.fatal
  THEN [NewRun EXCEPT !.st = "failed", !.lookup = c.lookup]
  ELSE IF c.hit # NoConn
  THEN [NewRun EXCEPT !.st = "returned", !.result = c.hit, !.source = "registry",
                      !.lookup = c.lookup]
  ELSE [NewRun EXCEPT !.st = "attempt", !.lookup = c.lookup]

\* What the deferred function passes to createI18nConnection.
ConnectArgs(o) ==
  IF ~o.type THEN "none"
  ELSE IF ~o.autoLoadEntities THEN "options"
  ELSE IF o.entities THEN "options+entities+storage"
  ELSE "options+storage"

\* The name the connector registers the connection under: the options' name,
\* or the default connection of the ORM's own configuration.
ConnectName(o) ==
  IF ~o.type THEN DEFAULT_CONNECTION_NAME ELSE GetConnectionName(o)

\* A mutant: the promise resolves with the first connection object ever made.
AttemptRunFirstValue(r, o, ok, id) ==
  IF ok
  THEN [r EXCEPT !.st = "returned", !.calls = @ + 1, !.result = 1,
                 !.source = "connector", !.args = ConnectArgs(o)]
  ELSE IF HandleRetry(r.errorCount + 1, RetryArgs(o)) = "retry"
  THEN [r EXCEPT !.st = "delay", !.calls = @ + 1, !.errorCount = @ + 1,
                 !.args = ConnectArgs(o)]
  ELSE [r EXCEPT !.st = "failed", !.calls = @ + 1, !.errorCount = @ + 1,
                 !.error = id, !.args = ConnectArgs(o)]

\* One subscription of the deferred connect, piped through handleRetry:
\* a success resolves the promise with the connection, a failure is retried
\* or rejects it with that failure.
AttemptRun(r, o, ok, id) ==
  IF ok
  THEN [r EXCEPT !.st = "returned", !.calls = @ + 1, !.result = id,
                 !.source = "connector", !.args = ConnectArgs(o)]
  ELSE IF HandleRetry(r.errorCount + 1, RetryArgs(o)) = "retry"
  THEN [r EXCEPT !.st = "delay", !.calls = @ + 1, !.errorCount = @ + 1,
                 !.args = ConnectArgs(o)]
  ELSE [r EXCEPT !.st = "failed", !.calls = @ + 1, !.errorCount = @ + 1,
                 !.error = id, !.args = ConnectArgs(o)]

\* The wait between two attempts, and the log line of a verbose retry.
DelayRun(r, o) ==
  [r EXCEPT !.st = "attempt", !.delays = @ + 1,
            !.elapsed = @ + RetryArgs(o).retryDelay,
            !.logged = IF RetryArgs(o).verboseRetryLog THEN @ + 1 ELSE @]

Flip(o) == [o EXCEPT !.verboseRetryLog = ~@]

PhaseOf(r) ==
  CASE r.st = "returned" -> "up"
    [] r.st = "failed" -> "failed"
    [] OTHER -> "establishing"

Provide(r) ==
  IF r.st = "returned"
  THEN [container EXCEPT ![ProviderToken] = r.result]
  ELSE container

\* ------------------------------------------------------------------ Init
Init ==
  /\ mode \in {"forRoot", "forRootAsync"}
  /\ asyncName \in NameOpts
  /\ mode = "forRoot" => asyncName = None
  /\ options \in OptionsSet
  /\ phase = "idle"
  /\ run = NewRun
  /\ twin = NewRun
  /\ nextId = 1
  /\ opened = {}
  /\ connected = {}
  /\ registry = [n \in Names |-> NoConn]
  /\ container = [t \in Tokens |-> NoConn]
  /\ lastLookup = None
  /\ closeCalls = [i \in Ids |-> 0]
  /\ closeOnClosed = FALSE
  /\ restarts = 0

\* --------------------------------------------------------------- actions
\* The container resolves the connection provider: createConnectionFactory
\* runs up to its first await.
Establish(fault) ==
  /\ phase = "idle"
  /\ run' = StartRun(EffectiveOptions, fault)
  /\ twin' = StartRun(Flip(EffectiveOptions), fault)
  /\ phase' = PhaseOf(run')
  /\ container' = Provide(run')
  /\ UNCHANGED << mode, asyncName, options, nextId, opened, connected, registry,
                  lastLookup, closeCalls, closeOnClosed, restarts >>

\* One call of the connector and handleRetry's answer to its outcome.
Attempt(ok) ==
  /\ phase = "establishing"
  /\ run.st = "attempt"
  /\ nextId <= MaxCalls
  /\ run' = AttemptRun(run, EffectiveOptions, ok, nextId)
  /\ twin' = IF twin.st = "attempt"
             THEN AttemptRun(twin, Flip(EffectiveOptions), ok, nextId)
             ELSE twin
  /\ nextId' = nextId + 1
  /\ opened' = IF ok THEN opened \cup {nextId} ELSE opened
  /\ connected' = IF ok THEN connected \cup {nextId} ELSE connected
  /\ registry' = [registry EXCEPT ![ConnectName(EffectiveOptions)] = nextId]
  /\ phase' = PhaseOf(run')
  /\ container' = Provide(run')
  /\ UNCHANGED << mode, asyncName, options, lastLookup, closeCalls, closeOnClosed,
                  restarts >>

\* The retry delay elapses.
Delay ==
  /\ phase = "establishing"
  /\ run.st = "delay"
  /\ run' = DelayRun(run, EffectiveOptions)
  /\ twin' = IF twin.st = "delay" THEN DelayRun(twin, Flip(EffectiveOptions)) ELSE twin
  /\ UNCHANGED << mode, asyncName, options, phase, nextId, opened, connected,
                  registry, container, lastLookup, closeCalls, closeOnClosed, restarts >>

\* connection.close(): counted; it disconnects a connected object and is an
\* error on one that is not connected.
Close(id) ==
  /\ closeCalls' = [closeCalls EXCEPT ![id] = @ + 1]
  /\ closeOnClosed' = (closeOnClosed \/ id \notin connected)
  /\ connected' = connected \ {id}

\* The holder of the connection closes it.
ExplicitClose ==
  /\ phase = "up"
  /\ run.result \in connected
  /\ Close(run.result)
  /\ UNCHANGED << mode, asyncName, options, phase, run, twin, nextId, opened,
                  registry, container, lastLookup, restarts >>

\* A mutant: the hook ignores keepConnectionAlive.
OnApplicationShutdownNoFlag ==
  /\ phase = "up"
  /\ phase' = "down"
  /\ lastLookup' = Some(GetConnectionToken(options))
  /\ IF container[GetConnectionToken(options)] # NoConn
     THEN Close(container[GetConnectionToken(options)])
     ELSE UNCHANGED << closeCalls, closeOnClosed, connected >>
  /\ UNCHANGED << mode, asyncName, options, run, twin, nextId, opened, registry,
                  container, restarts >>

\* onApplicationShutdown.
OnApplicationShutdown ==
  /\ phase = "up"
  /\ phase' = "down"
  /\ IF options.keepConnectionAlive
     THEN UNCHANGED << lastLookup, closeCalls, closeOnClosed, connected >>
     ELSE /\ lastLookup' = Some(GetConnectionToken(options))
          /\ IF container[GetConnectionToken(options)] # NoConn
             THEN Close(container[GetConnectionToken(options)])
             ELSE UNCHANGED << closeCalls, closeOnClosed, connected >>
  /\ UNCHANGED << mode, asyncName, options, run, twin, nextId, opened, registry,
                  container, restarts >>

\* A new application instance in the same process: a new module instance and
\* container, the same connection registry.
Restart ==
  /\ phase \in {"down", "failed"}
  /\ restarts < MaxRestarts
  /\ restarts' = restarts + 1
  /\ phase' = "idle"
  /\ run' = NewRun
  /\ twin' = NewRun
  /\ container' = [t \in Tokens |-> NoConn]
  /\ lastLookup' = None
  /\ UNCHANGED << mode, asyncName, options, nextId, opened, connected, registry,
                  closeCalls, closeOnClosed >>

Next ==
  \/ \E fault \in {"none", "has", "get", "isConnected"} : Establish(fault)
  \/ \E ok \in BOOLEAN : Attempt(ok)
  \/ Delay
  \/ ExplicitClose
  \/ OnApplicationShutdown
  \/ Restart

Spec == Init /\ [][Next]_vars

\* The module registered with forRoot only.
InitForRoot == Init /\ mode = "forRoot"

SpecForRoot == InitForRoot /\ [][Next]_vars

\* ---------------------------------------------------------------- claims
\* The step that starts a call of createConnectionFactory.
Starts == phase = "idle" /\ phase' # "idle"

\* Every connector call of the current run has failed.
AllFailed == run.errorCount = run.calls

\* C1: with a finite budget N > 0 and a connector that has failed on every
\* call, the run never makes more than N calls, has waited retryDelay once
\* between two consecutive calls, goes on while fewer than N calls are made
\* and fails exactly at the N-th, with the N-th call's error and no handle.
C1_ExactlyNAttempts ==
  LET o == EffectiveOptions IN
  (phase # "idle" /\ ~Unlimited(o.retryAttempts) /\ AllFailed) =>
    /\ run.calls <= o.retryAttempts[1]
    /\ (run.st = "failed") <=> (run.calls = o.retryAttempts[1])
    /\ run.st = "attempt" => run.delays = run.calls
    /\ run.st \in {"delay", "failed"} => run.delays = run.calls - 1
    /\ run.elapsed = run.delays * o.retryDelay
    /\ run.st = "failed" => run.error = nextId - 1 /\ run.result = NoConn

C1_Witness ==
  /\ run.st = "failed"
  /\ EffectiveOptions.retryAttempts = Some(MaxAttempts)
  /\ EffectiveOptions.retryDelay = MaxDelay
  /\ run.calls = MaxAttempts
  /\ run.delays = MaxAttempts - 1

\* C2: with an unlimited budget, the connector call that succeeds (the k-th,
\* after k-1 failures) ends the run with the handle that call made, and no
\* connector call is made by a run that has returned.
C2_SucceedsOnKth ==
  [][ Unlimited(EffectiveOptions.retryAttempts) =>
        /\ (run.st = "attempt" /\ opened' # opened) =>
             /\ run'.st = "returned"
             /\ run'.result = nextId
             /\ run'.result \in opened' \ opened
             /\ run'.calls = run.calls + 1
             /\ run'.errorCount = run.calls
        /\ (run.st = "returned" /\ run'.st = "returned") =>
             /\ run'.calls = run.calls
             /\ run'.result = run.result
             /\ nextId' = nextId ]_vars

C2_Witness ==
  /\ Unlimited(EffectiveOptions.retryAttempts)
  /\ run.st = "returned"
  /\ run.source = "connector"
  /\ run.errorCount = MaxAttempts
  /\ run.calls = MaxAttempts + 1

\* C3: a budget of zero or unset never ends a run with an error: after every
\* failed call the run waits and tries again.
C3_ZeroOrUnsetRetriesForever ==
  Unlimited(EffectiveOptions.retryAttempts) =>
    /\ run.st # "failed"
    /\ run.error = NoConn
    /\ (AllFailed /\ run.calls > 0) => run.st \in {"delay", "attempt"}

C3_Witness ==
  /\ EffectiveOptions.retryAttempts = Some(0)
  /\ run.errorCount = MaxAttempts + 1
  /\ run.st = "delay"

\* C4: with keepConnectionAlive and a connected connection registered under
\* the options' connection name (and no registry call throwing), the call
\* returns that connection and has made no connector call.
C4_KeepAliveReturnsExisting ==
  [][ LET n == GetConnectionName(EffectiveOptions) IN
      ( /\ Starts
        /\ EffectiveOptions.keepConnectionAlive
        /\ run'.lookup # "threw"
        /\ registry[n] # NoConn
        /\ registry[n] \in connected ) =>
        /\ run'.st = "returned"
        /\ phase' = "up"
        /\ run'.result = registry[n]
        /\ run'.calls = 0
        /\ nextId' = nextId ]_vars

C4_Witness ==
  /\ phase = "up"
  /\ EffectiveOptions.keepConnectionAlive
  /\ run.source = "registry"
  /\ run.result \in connected
  /\ run.calls = 0

\* C5: the run with verboseRetryLog negated, fed the same connector outcomes,
\* is at every moment in the same position with the same number of connector
\* calls, the same handle and the same error; only the log may differ.
C5_VerboseOnlyLogs ==
  phase # "idle" =>
    /\ twin.st = run.st
    /\ twin.calls = run.calls
    /\ twin.result = run.result
    /\ twin.error = run.error
    /\ twin.delays = run.delays

C5_Witness ==
  /\ run.st = "failed"
  /\ run.calls >= 2
  /\ run.logged # twin.logged

\* C6: close is never invoked on a handle that is already closed, and after
\* shutdown without keep-alive the handle the module produced is closed.
C6_ClosedExactlyOnce ==
  /\ ~closeOnClosed
  /\ \A i \in Ids : closeCalls[i] <= 1
  /\ (phase = "down" /\ ~options.keepConnectionAlive /\ run.result # NoConn)
       => run.result \notin connected

\* C7: a call returns only a handle that is connected at the return, made by
\* the connector call that just succeeded or found connected in the registry
\* under the connection name; a run that failed holds no handle.
C7_AllOrNothing ==
  [][ /\ (run.st # "returned" /\ run'.st = "returned") =>
           /\ run'.result # NoConn
           /\ run'.result \in connected'
           /\ \/ /\ run'.source = "connector"
                 /\ run'.result = nextId
                 /\ run'.result \in opened' \ opened
              \/ /\ run'.source = "registry"
                 /\ run'.result = registry[GetConnectionName(EffectiveOptions)]
                 /\ run'.result \in connected
      /\ run'.st = "failed" =>
           /\ run'.result = NoConn
           /\ container' = container ]_vars

C7_Witness ==
  /\ phase = "up"
  /\ run.lookup = "notConnected"
  /\ run.source = "connector"
  /\ run.result \in connected
  /\ run.errorCount >= 1

\* C8: onApplicationShutdown with keepConnectionAlive looks nothing up and
\* leaves every connection's state and close count as they are; without it,
\* it looks up the options' connection token and calls close once on the
\* connection found, if any.
C8_ShutdownHonoursKeepAlive ==
  [][ (phase = "up" /\ phase' = "down") =>
        IF options.keepConnectionAlive
        THEN /\ lastLookup' = None
             /\ connected' = connected
             /\ closeCalls' = closeCalls
        ELSE LET c == container[GetConnectionToken(options)] IN
             /\ lastLookup' = Some(GetConnectionToken(options))
             /\ IF c # NoConn
                THEN /\ closeCalls' = [closeCalls EXCEPT ![c] = @ + 1]
                     /\ c \notin connected'
                ELSE /\ closeCalls' = closeCalls
                     /\ connected' = connected ]_vars

C8_Witness ==
  /\ phase = "down"
  /\ options.keepConnectionAlive
  /\ run.result \in connected
  /\ closeCalls[run.result] = 0
  /\ lastLookup = None

C10_ShutdownTokenIsProviderToken ==
  (mode = "forRootAsync" /\ phase = "down" /\ ~options.keepConnectionAlive) =>
    /\ lastLookup = Some(ProviderToken)
    /\ run.result \notin connected

====
